---- MODULE Spec2Model ----
(***************************************************************************)
(* Model of src/bot.ts: the Bot class, one chat turn.                      *)
(*                                                                         *)
(* A turn is chat -> chat_ -> [threads.messages.list] -> pRetry(create).   *)
(* The two providers (history list, chat completion create) are the        *)
(* environment: every outcome they can produce is an input drawn with \E.  *)
(* The turn is suspended at three places: awaiting the history list        *)
(* (pc = "history"), awaiting a completion attempt (pc = "completion"),    *)
(* and waiting for p-retry's timer between attempts (pc = "backoff").      *)
(*                                                                         *)
(* JavaScript values: an absent optional field (undefined) is ABSENT, a    *)
(* null content is NULL; both are markers distinct from every string the   *)
(* model uses.  Strings are TLA+ strings, so startsWith/substring/+ are    *)
(* computed as the code computes them.                                     *)
(***************************************************************************)
EXTENDS Integers, Sequences, FiniteSets, TLC

\* ------------------------------------------------------------------ bounds
MaxRetries == 2   \* options.openaiRetries ranges over 0..MaxRetries
MaxHist == 2      \* the history provider returns at most MaxHist messages
MaxClock == 0     \* Date.now() ranges over 0..MaxClock
MaxTurns == 3     \* a caller chains at most MaxTurns turns

\* ------------------------------------------------------------ JS markers
ABSENT == "<undefined>"
NULL == "<null>"

\* JS truthiness of an optional string: undefined and '' are falsy.
Truthy(v) == v # ABSENT /\ v # ""

\* ------------------------------------------------------------------ inputs
Messages == {"", "hello"}
IdValues == {ABSENT, "", "id_1"}
Ids == [messageId : IdValues, threadId : IdValues]
EmptyIds == [messageId |-> ABSENT, threadId |-> ABSENT]
Clock == 0..MaxClock

\* The system prompt built by the constructor (fixed per Bot).
SystemMessage == "system prompt"

\* Errors: cls is the JS class of the thrown value ("NonError" for a thrown
\* value that is not an Error instance), msg its message.
ErrConn == [cls |-> "Error", msg |-> "Connection error."]
ErrTimeout == [cls |-> "Error", msg |-> "Request timed out."]
ErrNetType == [cls |-> "TypeError", msg |-> "Network request failed"]
ErrType == [cls |-> "TypeError", msg |-> "x is not a function"]
ErrNonError == [cls |-> "NonError", msg |-> "boom"]
ThrownValues == {ErrConn, ErrTimeout, ErrNetType, ErrType, ErrNonError}

\* e instanceof Error (TypeError extends Error).
IsError(e) == e.cls \in {"Error", "TypeError"}

\* Messages the history provider can return: content[0] is a text part, a
\* non-text part (image_file), or missing (empty content array).
HistText == [role |-> "user", kind |-> "text", value |-> "earlier question"]
HistImage == [role |-> "assistant", kind |-> "image_file", value |-> ABSENT]
HistNoPart == [role |-> "user", kind |-> "none", value |-> ABSENT]
HistMsgs == {HistText, HistImage, HistNoPart}
HistLists == UNION {[1..n -> HistMsgs] : n \in 0..MaxHist}

\* Contents a completion's first choice can carry.
Contents == {"with hello", "hi there", "with with x", "say with x",
             "with ", "with", "", NULL}

\* What create() can resolve with: no choices at all, a first choice without
\* a message, or a first choice with an assistant message.
Completions ==
  {[shape |-> "nochoices", content |-> NULL],
   [shape |-> "nomessage", content |-> NULL]}
  \cup {[shape |-> "message", content |-> c] : c \in Contents}

VARIABLES
  bot,        \* "new" before the constructor ran, then "constructed" or "failed"
  client,     \* this.client is set (not null)
  retries,    \* options.openaiRetries
  debug,      \* options.debug
  message,    \* chat's message argument
  ids,        \* chat's ids argument
  pc,         \* position of the turn
  start,      \* chat_'s `start`
  messages,   \* chat_'s local `messages` array
  sent,       \* the messages argument of the latest create() call
  histCalls,  \* number of threads.messages.list calls made
  listArg,    \* the thread id given to threads.messages.list
  listed,     \* how the threads.messages.list call settled
  complCalls, \* number of chat.completions.create calls made
  inFlight,   \* number of create calls made and not yet settled
  thrown,     \* what each failed attempt of the retried function raised
  errors,     \* errors recorded by the retry operation, oldest first
  response,   \* chat_'s `response` (what pRetry resolved with)
  logs,       \* lines given to info/warning, oldest first
  res,        \* how chat's promise settled
  chain,      \* the caller: number of the turn, the identity it holds from
              \* the previous turn, the threadId the first turn returned
  other       \* the locals of a second chat call on the same Bot, the one
              \* whose continuation is not running

vars == <<bot, client, retries, debug, message, ids, pc, start, messages,
          sent, histCalls, listArg, listed, complCalls, inFlight, thrown,
          errors, response, logs, res, chain, other>>

NotListed == [state |-> "none", data |-> <<>>]

Pending == [state |-> "pending", text |-> "", ids |-> EmptyIds]
Resolved(t, i) == [state |-> "resolved", text |-> t, ids |-> i]
Rejected == [state |-> "rejected", text |-> "", ids |-> EmptyIds]

Info(t) == [level |-> "info", text |-> t]
Warning(t) == [level |-> "warning", text |-> t]
HistoryWarning ==
  Warning("Failed to retrieve message history, continuing with new message")

\* ------------------------------------------------------- chat_ : helpers

\* line 68: if (!message || !this.client)
PreconditionClientOnly(m, hasClient) == ~hasClient
PreconditionFails(m, hasClient) == m = "" \/ ~hasClient

\* lines 73-82: the array literal [system, user]
InitialMessages(m) ==
  <<[role |-> "system", content |-> SystemMessage],
    [role |-> "user", content |-> m]>>

\* line 85: if (ids.messageId && ids.threadId)
WantsHistoryThreadOnly(i) == Truthy(i.threadId)
WantsHistory(i) == Truthy(i.messageId) /\ Truthy(i.threadId)

\* lines 90-97: the for..of loop pushing each returned message.  Reading
\* msg.content[0].type of a message with an empty content array throws a
\* TypeError; the pushes made before it stay in the array.
RECURSIVE PushHistory(_, _)
PushHistory(msgs, data) ==
  IF data = <<>> THEN [messages |-> msgs, threw |-> FALSE]
  ELSE LET msg == Head(data) IN
       IF msg.kind = "none" THEN [messages |-> msgs, threw |-> TRUE]
       ELSE PushHistory(
              Append(msgs, [role |-> msg.role,
                            content |-> IF msg.kind = "text" THEN msg.value
                                        ELSE ""]),
              Tail(data))

\* ------------------------------------------------------ p-retry : helpers

NetworkErrorMessages ==
  {"Failed to fetch", "NetworkError when attempting to fetch resource.",
   "The Internet connection appears to be offline.", "Network request failed"}

\* pRetry (line 103) is the p-retry library, called without a shouldRetry
\* option.  It retries an Error; a TypeError only when its message is a
\* network-error message ("does not retry on most TypeErrors"); a thrown
\* non-Error is never retried.
ShouldRetryAll(e) == TRUE
ShouldRetry(e) ==
  /\ IsError(e)
  /\ e.cls = "TypeError" => e.msg \in NetworkErrorMessages

\* line 116: retries: this.options.openaiRetries.  After a retryable failure
\* the operation schedules another attempt while fewer than n errors were
\* recorded before this one.
BudgetLeftShort(n, recorded) == recorded + 1 < n
BudgetLeft(n, recorded) == recorded < n

\* What pRetry rejects with when a non-Error was thrown.
NonErrorWrapped(e) ==
  [cls |-> "TypeError",
   msg |-> "Non-error was thrown: \"" \o e.msg
             \o "\". You should only throw errors."]

\* The retry operation's mainError(): the recorded error whose message occurs
\* most often, the latest one among equals.
Count(errs, m) == Cardinality({i \in 1..Len(errs) : errs[i].msg = m})
MainErrorFirst(errs) == errs[1]
MainError(errs) ==
  LET best == CHOOSE i \in 1..Len(errs) :
                \A j \in 1..Len(errs) :
                  \/ Count(SubSeq(errs, 1, i), errs[i].msg)
                       > Count(SubSeq(errs, 1, j), errs[j].msg)
                  \/ /\ Count(SubSeq(errs, 1, i), errs[i].msg)
                          = Count(SubSeq(errs, 1, j), errs[j].msg)
                     /\ j <= i
  IN errs[best]

\* lines 117-123: onFailedAttempt
AttemptFailedLogZeroBased(e, attemptNumber, n) ==
  Info("Attempt failed: " \o e.msg \o ". " \o ToString(attemptNumber - 1)
         \o " of " \o ToString(n + 1) \o " attempts made.")
AttemptFailedLog(e, attemptNumber, n) ==
  Info("Attempt failed: " \o e.msg \o ". " \o ToString(attemptNumber)
         \o " of " \o ToString(n + 1) \o " attempts made.")

\* TypeError of `completion.choices[0].message` when choices is empty.
ErrNoChoice ==
  [cls |-> "TypeError",
   msg |-> "Cannot read properties of undefined (reading 'message')"]
\* TypeError of `response.content` when the first choice has no message.
ErrNoContent ==
  [cls |-> "TypeError",
   msg |-> "Cannot read properties of undefined (reading 'content')"]

\* ------------------------------------------------- chat_ : normalisation

StartsWith(s, prefix) ==
  Len(s) >= Len(prefix) /\ SubSeq(s, 1, Len(prefix)) = prefix

\* lines 134-137
RECURSIVE CleanTextStripAll(_)
CleanTextStripAll(content) ==
  LET responseText == IF content = NULL THEN "" ELSE content IN
  IF StartsWith(responseText, "with ")
  THEN CleanTextStripAll(SubSeq(responseText, 6, Len(responseText)))
  ELSE responseText
CleanText(content) ==
  LET responseText == IF content = NULL \/ content = "" THEN "" ELSE content IN
  IF StartsWith(responseText, "with ")
  THEN SubSeq(responseText, 6, Len(responseText))
  ELSE responseText

\* lines 139-142; t1 and t2 are the two Date.now() readings.
NewIdsNoMessageId(role, i, t1, t2) ==
  [messageId |-> ABSENT,
   threadId |-> IF Truthy(i.threadId) THEN i.threadId
                ELSE "thread_" \o ToString(t2)]
NewIdsNullish(role, i, t1, t2) ==
  [messageId |-> role \o "_" \o ToString(t1),
   threadId |-> IF i.threadId # ABSENT THEN i.threadId
                ELSE "thread_" \o ToString(t2)]
NewIds(role, i, t1, t2) ==
  [messageId |-> role \o "_" \o ToString(t1),
   threadId |-> IF Truthy(i.threadId) THEN i.threadId
                ELSE "thread_" \o ToString(t2)]

\* `response` before pRetry resolved, or resolved with undefined.
NoResponse == [role |-> ABSENT, content |-> ABSENT]

\* line 131: JSON.stringify(response)
Json(r) ==
  "{\"role\":\"" \o r.role \o "\",\"content\":"
    \o (IF r.content = NULL THEN "null" ELSE "\"" \o r.content \o "\"")
    \o "}"

\* lines 127-132: the logs written once pRetry resolved; r is NoResponse
\* when the first choice had no message (JSON.stringify(undefined) is
\* undefined).
ResponseLogs(r, t0, end, dbg) ==
  <<Info("openai response time: " \o ToString(end - t0) \o " ms")>>
  \o (IF dbg
      THEN <<Info("openai response: "
                    \o (IF r = NoResponse THEN "undefined" ELSE Json(r)))>>
      ELSE <<>>)

\* ------------------------------------------------------------ the catches

\* lines 145-151: chat_'s outer catch; the error it throws on.
InnerCatchThrows(e) ==
  IF IsError(e) THEN e
  ELSE [cls |-> "Error", msg |-> "An unknown error occurred"]
InnerCatchLogs(e) ==
  IF IsError(e)
  THEN <<Info("Failed to send message to OpenAI: " \o e.msg)>>
  ELSE <<>>

\* lines 55-60: chat's catch; res still holds ['', {}].
ChatCatchLogsInfo(e) ==
  IF IsError(e)
  THEN <<Info("Failed to chat: " \o e.msg \o ", backtrace: stack")>>
  ELSE <<>>
ChatCatchLogs(e) ==
  IF IsError(e)
  THEN <<Warning("Failed to chat: " \o e.msg \o ", backtrace: stack")>>
  ELSE <<>>
ChatCatchRethrows(e) == Rejected
ChatCatchEchoIds(e) == Resolved("", ids)
ChatCatch(e) == Resolved("", EmptyIds)

\* An error e raised inside chat_'s try block: both catches run and chat
\* settles.
Caught(e, lg) ==
  /\ logs' = lg \o InnerCatchLogs(e) \o ChatCatchLogs(InnerCatchThrows(e))
  /\ res' = ChatCatch(InnerCatchThrows(e))
  /\ pc' = "done_caught"

\* What one chat call keeps to itself: its parameters, chat_'s locals, its
\* retry operation and its promise.
Frame ==
  [pc |-> pc, message |-> message, ids |-> ids, start |-> start,
   messages |-> messages, sent |-> sent, histCalls |-> histCalls,
   listArg |-> listArg, listed |-> listed, complCalls |-> complCalls,
   inFlight |-> inFlight, thrown |-> thrown, errors |-> errors,
   response |-> response, logs |-> logs, res |-> res]

Init ==
  /\ bot = "new"
  /\ client = FALSE
  /\ retries \in 0..MaxRetries
  /\ debug \in BOOLEAN
  /\ message = ""
  /\ ids = EmptyIds
  /\ pc = "idle"
  /\ start = 0
  /\ messages = <<>>
  /\ sent = <<>>
  /\ histCalls = 0
  /\ listArg = ABSENT
  /\ listed = NotListed
  /\ complCalls = 0
  /\ inFlight = 0
  /\ thrown = <<>>
  /\ errors = <<>>
  /\ response = NoResponse
  /\ logs = <<>>
  /\ res = Pending
  /\ chain = [turn |-> 1, held |-> EmptyIds, thread |-> ABSENT]
  /\ other = Frame

\* constructor (lines 25-48): without OPENAI_API_KEY it throws (lines 43-47)
\* and there is no Bot; with it, this.client is set (lines 36-42).
ConstructorOutcomeSoft(hasKey) == "constructed"
ConstructorOutcome(hasKey) == IF hasKey THEN "constructed" ELSE "failed"

Construct(hasKey) ==
  /\ bot = "new"
  /\ bot' = ConstructorOutcome(hasKey)
  /\ client' = hasKey
  /\ UNCHANGED <<retries, debug, message, ids, pc, start, messages, sent,
                 histCalls, listArg, listed, complCalls, inFlight, thrown,
                 errors, response, logs, res, chain, other>>

\* this.client !== null
HasClient == client

\* The first (or next) call of the retried function: create() is called with
\* the messages array (lines 105-111).
CallCreateSpeculative(msgs) ==
  /\ sent' = msgs
  /\ complCalls' = complCalls + 2
  /\ inFlight' = inFlight + 2
  /\ pc' = "completion"
CallCreate(msgs) ==
  /\ sent' = msgs
  /\ complCalls' = complCalls + 1
  /\ inFlight' = inFlight + 1
  /\ pc' = "completion"

\* chat(message, ids) up to its first suspension: the precondition, the
\* messages array, and the history call or the first completion attempt.
\* The identities chat returns on success.
Returned ==
  {NewIds("assistant", i, t1, t2) : i \in Ids, t1 \in Clock, t2 \in Clock}

\* The identities a caller may pass: any on a first turn, afterwards the one
\* the previous turn returned.
Supplied == IF chain.turn = 1 THEN Ids ELSE {chain.held}

Chat(m, i, t) ==
  /\ bot = "constructed"
  /\ pc = "idle"
  /\ i \in Supplied
  /\ other.pc # "idle" => i # other.ids
  /\ message' = m
  /\ ids' = i
  /\ start' = t
  /\ IF PreconditionFails(m, HasClient)
     THEN /\ res' = Resolved("", EmptyIds)
          /\ pc' = "done_precondition"
          /\ UNCHANGED <<messages, sent, histCalls, listArg, complCalls,
                         inFlight>>
     ELSE /\ messages' = InitialMessages(m)
          /\ res' = res
          /\ IF WantsHistory(i)
             THEN /\ histCalls' = histCalls + 1
                  /\ listArg' = i.threadId
                  /\ pc' = "history"
                  /\ UNCHANGED <<sent, complCalls, inFlight>>
             ELSE /\ CallCreate(messages')
                  /\ UNCHANGED <<histCalls, listArg>>
  /\ UNCHANGED <<bot, client, retries, debug, listed, thrown, errors,
                 response, logs, chain, other>>

\* threads.messages.list resolved with `data` (lines 87-97), then pRetry
\* starts its first attempt.
ListResolves(data) ==
  /\ pc = "history"
  /\ listed' = [state |-> "resolved", data |-> data]
  /\ LET r == PushHistory(messages, data) IN
       /\ messages' = r.messages
       /\ logs' = IF r.threw THEN Append(logs, HistoryWarning) ELSE logs
       /\ CallCreate(r.messages)
  /\ UNCHANGED <<bot, client, retries, debug, message, ids, start, histCalls,
                 listArg, thrown, errors, response, res, chain, other>>

\* threads.messages.list rejected (lines 98-100), then pRetry starts its
\* first attempt.
ListRejects(e) ==
  /\ pc = "history"
  /\ listed' = [state |-> "rejected", data |-> <<>>]
  /\ logs' = Append(logs, HistoryWarning)
  /\ CallCreate(messages)
  /\ UNCHANGED <<bot, client, retries, debug, message, ids, start, messages,
                 histCalls, listArg, thrown, errors, response, res, chain, other>>

\* The retried function raised e in attempt number complCalls: pRetry's
\* catch.
AttemptRaisedStalls(e) ==
  /\ thrown' = Append(thrown, e)
  /\ IF ~IsError(e)
     THEN /\ Caught(NonErrorWrapped(e), logs)
          /\ UNCHANGED errors
     ELSE IF ~ShouldRetry(e)
     THEN /\ Caught(e, logs)
          /\ UNCHANGED errors
     ELSE /\ errors' = Append(errors, e)
          /\ logs' = Append(logs, AttemptFailedLog(e, complCalls, retries))
          /\ res' = res
          /\ pc' = IF BudgetLeft(retries, Len(errors)) THEN "backoff"
                   ELSE "stalled"
AttemptRaised(e) ==
  /\ thrown' = Append(thrown, e)
  /\ IF ~IsError(e)
     THEN /\ Caught(NonErrorWrapped(e), logs)
          /\ UNCHANGED errors
     ELSE IF ~ShouldRetry(e)
     THEN /\ Caught(e, logs)
          /\ UNCHANGED errors
     ELSE LET lg == Append(logs, AttemptFailedLog(e, complCalls, retries)) IN
          /\ errors' = Append(errors, e)
          /\ IF BudgetLeft(retries, Len(errors))
             THEN /\ pc' = "backoff"
                  /\ logs' = lg
                  /\ res' = res
             ELSE Caught(MainError(errors'), lg)

\* create() rejected with e (line 105).
CreateRejects(e) ==
  /\ pc = "completion"
  /\ inFlight' = inFlight - 1
  /\ AttemptRaised(e)
  /\ UNCHANGED <<bot, client, retries, debug, message, ids, start, messages,
                 sent, histCalls, listArg, listed, complCalls, response,
                 chain, other>>

\* create() resolved with completion c (lines 105-113), and, when the
\* attempt returns, the rest of chat_ (lines 127-144).
CreateResolves(c, end, t1, t2) ==
  /\ pc = "completion"
  /\ start <= end /\ end <= t1 /\ t1 <= t2
  /\ inFlight' = inFlight - 1
  /\ CASE c.shape = "nochoices" ->
            /\ AttemptRaised(ErrNoChoice)
            /\ UNCHANGED response
       [] c.shape = "nomessage" ->
            /\ response' = NoResponse
            /\ Caught(ErrNoContent,
                      logs \o ResponseLogs(NoResponse, start, end, debug))
            /\ UNCHANGED <<thrown, errors>>
       [] c.shape = "message" ->
            /\ response' = [role |-> "assistant", content |-> c.content]
            /\ logs' = logs \o ResponseLogs(response', start, end, debug)
            /\ res' = Resolved(CleanText(c.content),
                               NewIds("assistant", ids, t1, t2))
            /\ pc' = "done_ok"
            /\ UNCHANGED <<thrown, errors>>
  /\ UNCHANGED <<bot, client, retries, debug, message, ids, start, messages,
                 sent, histCalls, listArg, listed, complCalls, chain, other>>

\* p-retry's timer fired: the next attempt calls create() again.
BackoffElapses ==
  /\ pc = "backoff"
  /\ CallCreate(messages)
  /\ UNCHANGED <<bot, client, retries, debug, message, ids, start, messages,
                 histCalls, listArg, listed, thrown, errors, response, logs,
                 res, chain, other>>

\* The caller got the pair of a successful turn and will call chat again
\* with the returned identity, unchanged; the next call starts afresh (its
\* own locals, its own retry operation).
NextTurn ==
  /\ pc = "done_ok"
  /\ chain.turn < MaxTurns
  /\ chain' = [turn |-> chain.turn + 1,
               held |-> res.ids,
               thread |-> IF chain.turn = 1 THEN res.ids.threadId
                          ELSE chain.thread]
  /\ pc' = "idle"
  /\ message' = ""
  /\ ids' = EmptyIds
  /\ start' = 0
  /\ messages' = <<>>
  /\ sent' = <<>>
  /\ histCalls' = 0
  /\ listArg' = ABSENT
  /\ listed' = NotListed
  /\ complCalls' = 0
  /\ inFlight' = 0
  /\ thrown' = <<>>
  /\ errors' = <<>>
  /\ response' = NoResponse
  /\ logs' = <<>>
  /\ res' = Pending
  /\ UNCHANGED <<bot, client, retries, debug, other>>

\* `messages` is a const local of chat_ (line 73): a call that resumes finds
\* its own array, not the one the other call built.
OwnMessagesShared(saved, current) == current
OwnMessages(saved, current) == saved

\* The event loop turns from one call to the other: the running call is
\* suspended at its await (or has returned, or was not made yet) and the
\* other call's continuation is the next to run.
Switch ==
  /\ bot = "constructed"
  /\ pc # "idle" \/ other.pc # "idle"
  /\ other' = Frame
  /\ pc' = other.pc
  /\ message' = other.message
  /\ ids' = other.ids
  /\ start' = other.start
  /\ messages' = OwnMessages(other.messages, messages)
  /\ sent' = other.sent
  /\ histCalls' = other.histCalls
  /\ listArg' = other.listArg
  /\ listed' = other.listed
  /\ complCalls' = other.complCalls
  /\ inFlight' = other.inFlight
  /\ thrown' = other.thrown
  /\ errors' = other.errors
  /\ response' = other.response
  /\ logs' = other.logs
  /\ res' = other.res
  /\ UNCHANGED <<bot, client, retries, debug, chain>>

Next ==
  \/ \E k \in BOOLEAN : Construct(k)
  \/ \E m \in Messages, i \in Ids \cup Returned, t \in Clock : Chat(m, i, t)
  \/ \E data \in HistLists : ListResolves(data)
  \/ \E e \in ThrownValues : ListRejects(e)
  \/ \E e \in ThrownValues : CreateRejects(e)
  \/ \E c \in Completions, end \in Clock, t1 \in Clock, t2 \in Clock :
       CreateResolves(c, end, t1, t2)
  \/ BackoffElapses

Spec == Init /\ [][Next]_vars

\* Chains of turns: a caller that resupplies the identity of each successful
\* turn to the next call.  The Bot's options.debug is off and its retry
\* budget is at most one.
InitChain == Init /\ ~debug /\ retries <= 1
NextChain == Next \/ NextTurn
SpecChain == InitChain /\ [][NextChain]_vars

\* Two chat calls on one Bot with distinct identities, their continuations
\* interleaved at every await.  The Bot is as in InitChain; the providers
\* answer from these values.
ConcIds ==
  {EmptyIds, [messageId |-> "id_1", threadId |-> "id_1"],
   [messageId |-> ABSENT, threadId |-> "id_1"]}
ConcHistLists == {<<>>, <<HistText>>, <<HistImage, HistNoPart>>}
ConcThrown == {ErrConn, ErrType, ErrNonError}
ConcCompletions ==
  {c \in Completions :
     \/ c.shape = "nochoices"
     \/ c.shape = "message" /\ c.content \in {"with hello", ""}}
InitConc == InitChain
NextConc ==
  \/ \E k \in BOOLEAN : Construct(k)
  \/ \E m \in Messages, i \in ConcIds, t \in Clock : Chat(m, i, t)
  \/ \E data \in ConcHistLists : ListResolves(data)
  \/ \E e \in ConcThrown : ListRejects(e)
  \/ \E e \in ConcThrown : CreateRejects(e)
  \/ \E c \in ConcCompletions, t \in Clock : CreateResolves(c, t, t, t)
  \/ BackoffElapses
  \/ Switch
SpecConc == InitConc /\ [][NextConc]_vars

\* Every provider call made eventually resolves or rejects, and p-retry's
\* timer eventually fires.
ListSettles ==
  \/ \E data \in HistLists : ListResolves(data)
  \/ \E e \in ThrownValues : ListRejects(e)
CreateSettles ==
  \/ \E e \in ThrownValues : CreateRejects(e)
  \/ \E c \in Completions, end \in Clock, t1 \in Clock, t2 \in Clock :
       CreateResolves(c, end, t1, t2)
Fairness == WF_vars(ListSettles \/ CreateSettles \/ BackoffElapses)

\* The turns of a Bot whose options.debug is off (the debug dump of line 131
\* only adds a log line), with the provider calls and the timer fair.
InitFair == Init /\ ~debug
SpecFair == InitFair /\ [][Next]_vars /\ Fairness

\* ------------------------------------------------------------- properties

Done == {"done_precondition", "done_ok", "done_caught"}
SoftResult == [state |-> "resolved", text |-> "", ids |-> EmptyIds]
Last(q) == q[Len(q)]

\* C1: whatever the history and completion providers do (succeed, throw an
\* Error, throw a non-Error, return a malformed completion), chat's promise
\* resolves with a value; it never rejects.
C1_ChatNeverRejects ==
  /\ res.state # "rejected"
  /\ pc \in Done => res.state = "resolved"

\* C1 witness: a turn that ended after the provider threw a non-Error value.
C1_Witness ==
  /\ pc = "done_caught"
  /\ thrown # <<>>
  /\ Last(thrown).cls = "NonError"
  /\ res.state = "resolved"

\* C2: on every failure path (precondition failure, retries exhausted, any
\* other error inside the pipeline) chat returns exactly ('', {}); the text
\* is a string, never null, on every path, also when a successful
\* completion's content is null.
C2_FailureIsSoftResult ==
  /\ pc \in {"done_precondition", "done_caught"} => res = SoftResult
  /\ res.text # NULL /\ res.text # ABSENT
  /\ (pc = "done_ok" /\ response.content = NULL) => res.text = ""

\* C2 witness: the retry budget is exhausted in a turn whose input identity
\* was fully set, and the result is ('', {}).
C2_Witness ==
  /\ pc = "done_caught"
  /\ Len(errors) = retries + 1
  /\ ids.messageId = "id_1" /\ ids.threadId = "id_1"
  /\ res = SoftResult

\* C3: chat with an empty message, whatever the identity, returns ('', {})
\* at once and calls neither the history nor the completion provider.
C3_EmptyMessageNoCalls ==
  (pc # "idle" /\ message = "") =>
    /\ pc = "done_precondition"
    /\ res = SoftResult
    /\ histCalls = 0
    /\ complCalls = 0

\* C3 witness: an empty-message call with both identity fields set returned.
C3_Witness ==
  /\ pc = "done_precondition"
  /\ message = ""
  /\ ids.messageId = "id_1" /\ ids.threadId = "id_1"

\* C4 (as claimed): the sequence passed to the completion provider begins
\* with the only system-role message and ends with the new user message,
\* the fetched history sitting strictly between the two.
C4_SystemFirstUserLast ==
  complCalls > 0 =>
    /\ sent[1] = [role |-> "system", content |-> SystemMessage]
    /\ Cardinality({k \in 1..Len(sent) : sent[k].role = "system"}) = 1
    /\ Last(sent) = [role |-> "user", content |-> message]

\* The provider threw on every create() call made so far.
EveryCallThrew ==
  /\ complCalls > 0
  /\ Len(thrown) = complCalls
  /\ \A k \in 1..Len(thrown) : thrown[k] \in ThrownValues

\* The errors p-retry treats as transient: an Error that is not a TypeError,
\* or a TypeError carrying a network-error message.
Transient(e) ==
  \/ e.cls = "Error"
  \/ e.cls = "TypeError" /\ e.msg \in NetworkErrorMessages

AttemptRaisedInStep == pc = "completion" /\ Len(thrown') = Len(thrown) + 1

C7_DegradedHistoryTwoMessages ==
  (pc # "history" /\ \E k \in 1..Len(logs) : logs[k] = HistoryWarning) =>
    /\ complCalls > 0
    /\ Len(sent) = 2

\* C8 (as claimed): when the history provider fails and a completion attempt
\* then succeeds, chat returns non-empty text and an identity with both
\* fields populated.
C8_HistoryFailureThenNonEmptyText ==
  (listed.state = "rejected" /\ pc = "done_ok") =>
    /\ res.text # ""
    /\ Truthy(res.ids.messageId)
    /\ Truthy(res.ids.threadId)

\* C8 (amended): when the history provider fails and a completion attempt
\* then succeeds, chat returns the completion's cleaned text, which is empty
\* exactly when the content is null, '' or 'with ', and an identity with
\* both fields populated.
C8_HistoryFailureThenCleanedText ==
  (listed.state = "rejected" /\ pc = "done_ok") =>
    /\ res.state = "resolved"
    /\ res.text = "" <=> response.content \in {NULL, "", "with "}
    /\ Truthy(res.ids.messageId)
    /\ Truthy(res.ids.threadId)

\* C8 witness: the history call was rejected and the turn returned text.
C8_Witness ==
  /\ listed.state = "rejected"
  /\ pc = "done_ok"
  /\ res.text = "hi there"

\* C9: after a successful turn both fields of the returned identity are
\* populated and non-empty; threadId is the input's when that was present
\* and non-empty, and a minted thread_<time> otherwise.
C9_SuccessPopulatesIdentity ==
  pc = "done_ok" =>
    /\ Truthy(res.ids.messageId)
    /\ Truthy(res.ids.threadId)
    /\ Truthy(ids.threadId) => res.ids.threadId = ids.threadId
    /\ ~Truthy(ids.threadId) =>
         \E t \in Clock : res.ids.threadId = "thread_" \o ToString(t)

\* C9 witness: a successful turn whose input threadId was the empty string.
C9_Witness ==
  /\ pc = "done_ok"
  /\ ids.threadId = ""
  /\ Truthy(res.ids.threadId)

\* C10: for a successful turn's content c, the returned text is c without
\* its first five characters when c starts with 'with ' (removed once), and
\* c itself otherwise.
C10_PrefixStrippedOnce ==
  (pc = "done_ok" /\ response.content # NULL) =>
    LET c == response.content IN
      IF Len(c) >= 5 /\ SubSeq(c, 1, 5) = "with "
      THEN "with " \o res.text = c
      ELSE res.text = c

\* C10 witness: 'with with x' was returned as 'with x'.
C10_Witness ==
  /\ pc = "done_ok"
  /\ response.content = "with with x"
  /\ res.text = "with x"

\* C12: constructing a Bot without the API credential fails at once and
\* yields no Bot, so chat is only ever invoked with the client set: the
\* precondition's client branch is never the reason of a soft result.
C12_NoBotWithoutCredential ==
  /\ bot = "failed" => (~client /\ pc = "idle" /\ res = Pending)
  /\ pc # "idle" => client
  /\ pc = "done_precondition" => message = ""

\* C12 witness: the constructor ran without the credential.
C12_Witness == bot = "failed" /\ pc = "idle"

\* C13: in a turn with a non-empty message the history provider is called
\* exactly once, with the input threadId, when the input identity has a
\* non-empty messageId and a non-empty threadId, and not at all otherwise;
\* when it is not called the completion provider gets exactly 2 messages.
C13_HistoryCalledIffBothIds ==
  (pc # "idle" /\ message # "") =>
    LET both == /\ ids.messageId \notin {ABSENT, ""}
                /\ ids.threadId \notin {ABSENT, ""}
    IN /\ histCalls = IF both THEN 1 ELSE 0
       /\ both => listArg = ids.threadId
       /\ ~both => (listArg = ABSENT /\ complCalls > 0 /\ Len(sent) = 2)

\* C13 witness: a finished turn whose identity had a threadId but no
\* messageId made no history call.
C13_Witness ==
  /\ pc = "done_ok"
  /\ ids.messageId = ABSENT /\ ids.threadId = "id_1"
  /\ histCalls = 0
  /\ Len(sent) = 2

\* The messages of a sequence other than the system prompt and the new user
\* message.
HistoryPart(q) ==
  SelectSeq(q, LAMBDA x : x # [role |-> "system", content |-> SystemMessage]
                          /\ x # [role |-> "user", content |-> message])

\* C14 (as claimed): when the history provider returns k messages, the
\* sequence holds exactly those k messages in provider order, role kept,
\* content the text value or '' when the content is not text; no returned
\* message makes the history step fail or drops a message.
C14_HistoryAppendedInOrder ==
  (listed.state = "resolved" /\ pc # "history") =>
    /\ \A k \in 1..Len(logs) : logs[k] # HistoryWarning
    /\ HistoryPart(sent) =
         [k \in 1..Len(listed.data) |->
            [role |-> listed.data[k].role,
             content |-> IF listed.data[k].kind = "text"
                         THEN listed.data[k].value ELSE ""]]

\* The message of the error reported by chat_'s log and chat's warning, when
\* the last two log lines are those two.
Reported(m) ==
  /\ Len(logs) >= 2
  /\ logs[Len(logs) - 1] = Info("Failed to send message to OpenAI: " \o m)
  /\ Last(logs) = Warning("Failed to chat: " \o m \o ", backtrace: stack")

\* All N+1 attempts of the turn failed.
BudgetExhausted == pc = "done_caught" /\ Len(errors) = retries + 1

AttemptLogs ==
  SelectSeq(logs, LAMBDA x : StartsWith(x.text, "Attempt failed: "))

\* The line onFailedAttempt writes for error e of attempt k.
AttemptLine(e, k) ==
  [level |-> "info",
   text |-> "Attempt failed: " \o e.msg \o ". " \o ToString(k) \o " of "
              \o ToString(retries + 1) \o " attempts made."]

C17_SequentialNetworkOperations ==
  /\ [](/\ inFlight \in {0, 1}
        /\ inFlight = 1 <=> pc = "completion"
        /\ pc = "history" => complCalls = 0
        /\ complCalls > 0 => (histCalls = 0 \/ listed.state # "none")
        /\ pc = "completion" => Len(thrown) = complCalls - 1)
  /\ [][/\ complCalls' > complCalls =>
             /\ complCalls' = complCalls + 1
             /\ Len(thrown) = complCalls
             /\ response = NoResponse
        /\ pc \in Done => complCalls' = complCalls]_vars

\* C17 witness: the third attempt is in flight after a rejected history call
\* and two failed attempts.
C17_Witness ==
  /\ pc = "completion"
  /\ listed.state = "rejected"
  /\ complCalls = 3
  /\ Len(thrown) = 2
  /\ inFlight = 1

\* C18: every chat call in which an error surfaces from the pipeline,
\* whatever was thrown, writes a 'Failed to chat' warning before it returns
\* ('', {}).
C18_PipelineFailureWarned ==
  pc = "done_caught" =>
    /\ res = SoftResult
    /\ Last(logs).level = "warning"
    /\ StartsWith(Last(logs).text, "Failed to chat: ")

\* C18 witness: the provider threw a non-Error value and the warning is the
\* last line written.
C18_Witness ==
  /\ pc = "done_caught"
  /\ thrown = <<ErrNonError>>
  /\ Last(logs).level = "warning"

\* C20: when every history call and every completion call eventually
\* returns or throws, every chat call made eventually resolves, with a
\* success pair or with ('', {}); it neither retries forever nor stays
\* pending.
C20_EveryCallResolves ==
  (pc # "idle") ~> (pc \in Done /\ res.state = "resolved")

\* C20 witness: a call resolved after a history call and as many completion
\* attempts as the budget of two retries allows.
C20_Witness ==
  /\ pc \in Done
  /\ res.state = "resolved"
  /\ histCalls = 1
  /\ retries = 2
  /\ complCalls = 3

\* C19 (as claimed): along a chain of turns in which the caller resupplies
\* the identity of the previous successful turn, every turn after the first
\* attempts a history fetch with the threadId the first turn returned.
C19_ChainFetchesSameThread ==
  (chain.turn > 1 /\ pc # "idle") =>
    /\ histCalls = 1
    /\ listArg = chain.thread

\* C19 (amended): along such a chain, every turn after the first that has a
\* non-empty message attempts a history fetch with the threadId the first
\* successful turn returned, also when that turn minted it, and a successful
\* turn returns that threadId again; a turn with an empty message attempts
\* no fetch.
C19_ChainFetchesSameThreadIfMessage ==
  (chain.turn > 1 /\ pc # "idle") =>
    /\ ids = chain.held
    /\ ids.threadId = chain.thread
    /\ message # "" => (histCalls = 1 /\ listArg = chain.thread)
    /\ message = "" => histCalls = 0
    /\ pc = "done_ok" => res.ids.threadId = chain.thread

\* C19 witness: the third turn of a chain fetched the history of the thread
\* the first turn minted.
C19_Witness ==
  /\ chain.turn = 3
  /\ chain.thread = "thread_0"
  /\ histCalls = 1
  /\ listArg = "thread_0"
  /\ pc = "done_ok"

\* What a call's own inputs (message, ids) and the answers to its own
\* requests (listed, thrown, response) make of its message sequence, its
\* attempt count and its result.
Assembled(f) ==
  IF f.listed.state = "resolved"
  THEN PushHistory(InitialMessages(f.message), f.listed.data).messages
  ELSE InitialMessages(f.message)
OwnOutcome(f) ==
  CASE f.pc = "idle" -> f.res = Pending /\ f.complCalls = 0
    [] f.pc = "done_precondition" ->
         /\ f.res = SoftResult
         /\ f.complCalls = 0
         /\ f.histCalls = 0
    [] OTHER ->
         /\ f.messages = Assembled(f)
         /\ f.histCalls = IF WantsHistory(f.ids) THEN 1 ELSE 0
         /\ f.pc # "history" => f.sent = f.messages
         /\ f.pc = "history" => f.complCalls = 0
         /\ f.pc = "completion" => f.complCalls = Len(f.thrown) + 1
         /\ f.pc = "backoff" => f.complCalls = Len(f.thrown)
         /\ f.pc = "done_ok" =>
              /\ f.complCalls = Len(f.thrown) + 1
              /\ \E t1 \in Clock, t2 \in Clock :
                   f.res = Resolved(CleanText(f.response.content),
                                    NewIds("assistant", f.ids, t1, t2))
         /\ f.pc = "done_caught" =>
              /\ f.complCalls = Len(f.thrown)
              /\ f.res = SoftResult
         /\ f.pc \notin Done => f.res = Pending

\* A step of one call leaves the other call's locals as they were; turning
\* from one call to the other exchanges the two and changes neither.
OtherUntouched ==
  \/ other' = other
  \/ other' = Frame /\ Frame' = other

\* C11: for two chat calls on the same Bot running concurrently with
\* distinct identities, under every interleaving of their history fetches,
\* completion attempts and backoffs, each call's assembled message sequence,
\* attempt count and result are what its own inputs and the answers to its
\* own requests make them, and no step of one call (a failure, a retry, a
\* delay) changes the other call's.
C11_ConcurrentCallsIndependent ==
  /\ [](OwnOutcome(Frame) /\ OwnOutcome(other))
  /\ [][OtherUntouched]_vars

\* C11 witness: one call failed after a retried attempt while the other,
\* started in between with another identity, got its history and its text.
C11_Witness ==
  /\ pc = "done_ok"
  /\ Len(messages) = 3
  /\ res.text = "hello"
  /\ other.pc = "done_caught"
  /\ Len(other.thrown) = 2
  /\ other.messages = InitialMessages("hello")
  /\ other.ids # ids
====
